---------------------------- MODULE Spec2Model ----------------------------
(***************************************************************************)
(* A model of ingestr's Google Ads source                                  *)
(* (src/ingestr/src/google_ads/__init__.py): the Report class and its      *)
(* spec-string parser, the BUILTIN_REPORTS catalog, the google_ads source  *)
(* generator and the daily_report row generator.                           *)
(*                                                                         *)
(* Python strings are TLA+ strings, read character by character with       *)
(* SubSeq.  Python lists are objects on a heap (a sequence of list values  *)
(* indexed by reference), so that two Reports holding the same list        *)
(* object -- the constructor's default arguments -- are visible as such.   *)
(* A row is the nested mapping helpers.data_processing.to_dict returns for *)
(* it; the query text and date_predicate are not modelled.                 *)
(***************************************************************************)
EXTENDS Integers, Sequences, FiniteSets, TLC

VARIABLES
    heap,       \* the list objects: heap[ref] is the value of list object ref
    catalog,    \* BUILTIN_REPORTS: sequence of [name, report] in dict order
    spec_in,    \* the spec string handed to from_spec
    ncalls,     \* number of from_spec calls made so far
    outcome,    \* what the last from_spec call did: returned a Report or raised
    returned,   \* the Reports returned by from_spec calls, oldest first
    pk,         \* the last primary_keys() call: its Report and its result
    src,        \* the google_ads generator object
    gen         \* the daily_report generator object, with its upstream stream

vars == << heap, catalog, spec_in, ncalls, outcome, returned, pk, src, gen >>

----------------------------------------------------------------------------
(* Python str methods, on single-character separators.                     *)

\* s[i-1] in Python terms: the i-th character, as a one-character string.
Char(s, i) == SubSeq(s, i, i)

\* s[i-1:j]; "" when the slice is empty.
Slice(s, i, j) == IF i > j THEN "" ELSE SubSeq(s, i, j)

\* str.count(c) for a one-character c.
StrCount(s, c) == Cardinality({ i \in 1..Len(s) : Char(s, i) = c })

\* The index of the first c at or after position from, 0 when there is none.
FindFrom(s, c, from) ==
    LET hits == { i \in from..Len(s) : Char(s, i) = c }
    IN  IF hits = {} THEN 0
        ELSE CHOOSE i \in hits : \A j \in hits : i <= j

RECURSIVE SplitFrom(_, _, _)
SplitFrom(s, c, from) ==
    LET j == FindFrom(s, c, from)
    IN  IF j = 0 THEN << Slice(s, from, Len(s)) >>
        ELSE << Slice(s, from, j - 1) >> \o SplitFrom(s, c, j + 1)

\* str.split(c): n occurrences of c give n+1 parts, empty parts kept.
StrSplit(s, c) == SplitFrom(s, c, 1)

\* The characters str.strip() removes (those str.isspace() is true for) that
\* a TLA+ string can hold: space, \t, \n, \r, \f, then the characters with
\* code points 0B (vertical tab), 1C, 1D, 1E, 1F (the four separators),
\* 85 (next line), A0 (no-break space) and 1680 (ogham space mark), each
\* written as itself between the quotes.  The other members of the class,
\* U+2000..200A, 2028, 2029, 202F, 205F and 3000, cannot stand in a string.
Whitespace ==
    { " ", "\t", "\n", "\r", "\f",
      "", "", "", "", "", "", " ", " " }

\* str.strip(): leading and trailing whitespace removed.
StrStrip(s) ==
    LET keep == { i \in 1..Len(s) : Char(s, i) \notin Whitespace }
    IN  IF keep = {} THEN ""
        ELSE LET lo == CHOOSE i \in keep : \A j \in keep : i <= j
                 hi == CHOOSE i \in keep : \A j \in keep : j <= i
             IN  SubSeq(s, lo, hi)

\* str.startswith(p).
StartsWith(s, p) == Len(s) >= Len(p) /\ SubSeq(s, 1, Len(p)) = p

RECURSIVE ReplaceFrom(_, _, _, _)
ReplaceFrom(s, a, b, i) ==
    IF i > Len(s) THEN ""
    ELSE (IF Char(s, i) = a THEN b ELSE Char(s, i)) \o ReplaceFrom(s, a, b, i + 1)

\* str.replace(a, b) for a one-character a.
StrReplace(s, a, b) == ReplaceFrom(s, a, b, 1)

RECURSIVE JoinFrom(_, _, _)
JoinFrom(parts, sep, i) ==
    IF i > Len(parts) THEN ""
    ELSE IF i = Len(parts) THEN parts[i]
    ELSE parts[i] \o sep \o JoinFrom(parts, sep, i + 1)

\* sep.join(parts).
StrJoin(parts, sep) == JoinFrom(parts, sep, 1)

----------------------------------------------------------------------------
(* class Report                                                            *)

\* The three default-argument lists of Report.__init__, created once when
\* the function is defined and shared by every call that omits the argument.
DefaultDimensions == 1
DefaultMetrics == 2
DefaultSegments == 3

\* The heap when the class body has been executed: the three empty defaults.
HeapAfterClass == << <<>>, <<>>, <<>> >>

\* A new list object holding value; returns the heap and the reference.
NewList(h, value) == [ heap |-> Append(h, value), ref |-> Len(h) + 1 ]

\* Report.__init__ stores the references it is given.
Report_init(resource, dimensions, metrics, segments) ==
    [ resource |-> resource, dimensions |-> dimensions,
      metrics |-> metrics, segments |-> segments ]

\* Report(): every argument defaulted.
Report_default == Report_init("", DefaultDimensions, DefaultMetrics, DefaultSegments)

\* The lists a Report holds, read through the heap.
Fields(h, r) ==
    [ resource |-> r.resource, dimensions |-> h[r.dimensions],
      metrics |-> h[r.metrics], segments |-> h[r.segments] ]

\* A faulty variant: only the first '.' of each path is replaced.
primary_keys_firstdot(h, r) ==
    LET all == h[r.dimensions] \o h[r.segments]
        first(k) == LET j == FindFrom(k, ".", 1)
                    IN  IF j = 0 THEN k
                        ELSE Slice(k, 1, j - 1) \o "_" \o Slice(k, j + 1, Len(k))
    IN  [ heap |-> h, value |-> [ i \in 1..Len(all) |-> first(all[i]) ] ]

\* Report.primary_keys: a new list built from self.dimensions + self.segments.
primary_keys(h, r) ==
    LET all == h[r.dimensions] \o h[r.segments]
    IN  [ heap |-> h,
          value |-> [ i \in 1..Len(all) |-> StrReplace(all[i], ".", "_") ] ]

ValueError(msg) == [ type |-> "ValueError", msg |-> msg ]

NoError == [ type |-> "", msg |-> "" ]

\* A faulty variant: the segments check is missing.
parse_dimension_nosegments(dim) ==
    LET d == StrStrip(dim)
    IN  IF StrCount(d, ".") = 0
        THEN [ ok |-> FALSE, value |-> "",
               error |-> ValueError("Invalid dimension format. Expected {resource}.{field}") ]
        ELSE [ ok |-> TRUE, value |-> d, error |-> NoError ]

\* Report._parse_dimension
parse_dimension(dim) ==
    LET d == StrStrip(dim)
    IN  IF StrCount(d, ".") = 0
        THEN [ ok |-> FALSE, value |-> "",
               error |-> ValueError("Invalid dimension format. Expected {resource}.{field}") ]
        ELSE IF StartsWith(d, "segments.")
        THEN [ ok |-> FALSE, value |-> "",
               error |-> ValueError("Invalid dimension format. Segments are not allowed in dimensions.") ]
        ELSE [ ok |-> TRUE, value |-> d, error |-> NoError ]

\* A faulty variant: the prefix is added whether or not it is already there.
parse_metric_always(metric) == "metrics." \o StrStrip(metric)

\* Report._parse_metric
parse_metric(metric) ==
    LET m == StrStrip(metric)
    IN  IF ~StartsWith(m, "metrics.") THEN "metrics." \o StrStrip(m) ELSE m

\* The comprehension over map(cls._parse_dimension, ...): the items in order,
\* stopping at the first one that raises.
RECURSIVE ParseDimensions(_, _)
ParseDimensions(items, i) ==
    IF i > Len(items) THEN [ ok |-> TRUE, value |-> <<>>, error |-> NoError ]
    ELSE LET p == parse_dimension(items[i])
         IN  IF ~p.ok THEN [ ok |-> FALSE, value |-> <<>>, error |-> p.error ]
             ELSE LET rest == ParseDimensions(items, i + 1)
                  IN  IF ~rest.ok THEN rest
                      ELSE [ ok |-> TRUE, value |-> << p.value >> \o rest.value,
                             error |-> NoError ]

FormatError ==
    ValueError("Invalid report specification format. Expected custom:{resource}:{dimensions}:{metrics}")

Raised(h, e) == [ heap |-> h, status |-> "raised", report |-> Report_default, error |-> e ]

\* A faulty variant: report.segments.append("segments.date") on the list cls()
\* was given, instead of binding a new list.
BuildReport_shared(h, spec) ==
    LET parts  == StrSplit(spec, ":")
        report == Report_default
        h1     == [ h EXCEPT ![report.segments] = Append(@, "segments.date") ]
        dims   == ParseDimensions(StrSplit(parts[3], ","), 1)
    IN  IF ~dims.ok THEN Raised(h1, dims.error)
        ELSE
          LET dl == NewList(h1, dims.value)
              ms == StrSplit(parts[4], ",")
              ml == NewList(dl.heap, [ i \in 1..Len(ms) |-> parse_metric(ms[i]) ])
          IN  [ heap |-> ml.heap, status |-> "returned",
                report |-> [ report EXCEPT !.resource = parts[2],
                                           !.dimensions = dl.ref,
                                           !.metrics = ml.ref ],
                error |-> NoError ]

\* Report.from_spec past its format check: the four parts unpacked, a
\* Report() made and its attributes bound to new lists.  When a dimension
\* raises, the half-built Report and its lists are garbage.
BuildReport(h, spec) ==
    LET parts  == StrSplit(spec, ":")
        report == Report_default                           \* cls()
        segs   == NewList(h, << "segments.date" >>)
        dims   == ParseDimensions(StrSplit(parts[3], ","), 1)
    IN  IF ~dims.ok THEN Raised(h, dims.error)
        ELSE
          LET dl == NewList(segs.heap, dims.value)
              ms == StrSplit(parts[4], ",")
              ml == NewList(dl.heap, [ i \in 1..Len(ms) |-> parse_metric(ms[i]) ])
          IN  [ heap |-> ml.heap, status |-> "returned",
                report |-> [ report EXCEPT !.segments = segs.ref,
                                           !.resource = parts[2],
                                           !.dimensions = dl.ref,
                                           !.metrics = ml.ref ],
                error |-> NoError ]

\* A faulty variant: the check is "fewer than 3", so a fifth part reaches the
\* unpacking of spec.split(":").
from_spec_atleast(h, spec) ==
    IF StrCount(spec, ":") < 3 THEN Raised(h, FormatError)
    ELSE IF StrCount(spec, ":") > 3
      THEN Raised(h, ValueError("too many values to unpack (expected 4)"))
    ELSE BuildReport(h, spec)

\* Report.from_spec, from the heap h it runs in to the heap it leaves.
from_spec(h, spec) ==
    IF StrCount(spec, ":") # 3 THEN Raised(h, FormatError)
    ELSE BuildReport(h, spec)

----------------------------------------------------------------------------
(* BUILTIN_REPORTS                                                         *)

\* BUILTIN_REPORTS["account_report_daily"]: the keyword arguments its Report(...) is built with
account_report_daily ==
    [ name |-> "account_report_daily",
      resource |-> "campaign",
      given |-> {"dimensions", "metrics", "segments"},
      dimensions |-> <<
          "customer.id"
        >>,
      metrics |-> <<
          "metrics.active_view_impressions",
          "metrics.active_view_measurability",
          "metrics.active_view_measurable_cost_micros",
          "metrics.active_view_measurable_impressions",
          "metrics.active_view_viewability",
          "metrics.clicks",
          "metrics.conversions",
          "metrics.conversions_value",
          "metrics.cost_micros",
          "metrics.impressions",
          "metrics.interactions",
          "metrics.interaction_event_types",
          "metrics.view_through_conversions"
        >>,
      segments |-> <<
          "segments.date",
          "segments.ad_network_type",
          "segments.device"
        >> ]

\* BUILTIN_REPORTS["campaign_report_daily"]: the keyword arguments its Report(...) is built with
campaign_report_daily ==
    [ name |-> "campaign_report_daily",
      resource |-> "campaign",
      given |-> {"dimensions", "metrics", "segments"},
      dimensions |-> <<
          "campaign.id",
          "customer.id"
        >>,
      metrics |-> <<
          "metrics.active_view_impressions",
          "metrics.active_view_measurability",
          "metrics.active_view_measurable_cost_micros",
          "metrics.active_view_measurable_impressions",
          "metrics.active_view_viewability",
          "metrics.clicks",
          "metrics.conversions",
          "metrics.conversions_value",
          "metrics.cost_micros",
          "metrics.impressions",
          "metrics.interactions",
          "metrics.interaction_event_types",
          "metrics.view_through_conversions"
        >>,
      segments |-> <<
          "segments.date",
          "segments.ad_network_type",
          "segments.device"
        >> ]

\* BUILTIN_REPORTS["ad_group_report_daily"]: the keyword arguments its Report(...) is built with
ad_group_report_daily ==
    [ name |-> "ad_group_report_daily",
      resource |-> "ad_group",
      given |-> {"dimensions", "metrics", "segments"},
      dimensions |-> <<
          "ad_group.id",
          "customer.id",
          "campaign.id"
        >>,
      metrics |-> <<
          "metrics.active_view_impressions",
          "metrics.active_view_measurability",
          "metrics.active_view_measurable_cost_micros",
          "metrics.active_view_measurable_impressions",
          "metrics.active_view_viewability",
          "metrics.clicks",
          "metrics.conversions",
          "metrics.conversions_value",
          "metrics.cost_micros",
          "metrics.impressions",
          "metrics.interactions",
          "metrics.interaction_event_types",
          "metrics.view_through_conversions"
        >>,
      segments |-> <<
          "segments.date",
          "segments.ad_network_type",
          "segments.device"
        >> ]

\* BUILTIN_REPORTS["ad_report_daily"]: the keyword arguments its Report(...) is built with
ad_report_daily ==
    [ name |-> "ad_report_daily",
      resource |-> "ad_group_ad",
      given |-> {"dimensions", "segments", "metrics"},
      dimensions |-> <<
          "ad_group.id",
          "ad_group_ad.ad.id",
          "customer.id",
          "campaign.id"
        >>,
      metrics |-> <<
          "metrics.active_view_impressions",
          "metrics.active_view_measurability",
          "metrics.active_view_measurable_cost_micros",
          "metrics.active_view_measurable_impressions",
          "metrics.active_view_viewability",
          "metrics.clicks",
          "metrics.conversions",
          "metrics.conversions_value",
          "metrics.cost_micros",
          "metrics.impressions",
          "metrics.interactions",
          "metrics.interaction_event_types",
          "metrics.view_through_conversions"
        >>,
      segments |-> <<
          "segments.date",
          "segments.ad_network_type",
          "segments.device"
        >> ]

\* BUILTIN_REPORTS["audience_report_daily"]: the keyword arguments its Report(...) is built with
audience_report_daily ==
    [ name |-> "audience_report_daily",
      resource |-> "ad_group_audience_view",
      given |-> {"dimensions", "segments", "metrics"},
      dimensions |-> <<
          "ad_group.id",
          "customer.id",
          "campaign.id",
          "ad_group_criterion.criterion_id"
        >>,
      metrics |-> <<
          "metrics.active_view_impressions",
          "metrics.active_view_measurability",
          "metrics.active_view_measurable_cost_micros",
          "metrics.active_view_measurable_impressions",
          "metrics.active_view_viewability",
          "metrics.clicks",
          "metrics.conversions",
          "metrics.conversions_value",
          "metrics.cost_micros",
          "metrics.impressions",
          "metrics.interactions",
          "metrics.interaction_event_types",
          "metrics.view_through_conversions"
        >>,
      segments |-> <<
          "segments.date",
          "segments.ad_network_type",
          "segments.device"
        >> ]

\* BUILTIN_REPORTS["keyword_report_daily"]: the keyword arguments its Report(...) is built with
keyword_report_daily ==
    [ name |-> "keyword_report_daily",
      resource |-> "ad_group_audience_view",
      given |-> {"dimensions", "segments", "metrics"},
      dimensions |-> <<
          "ad_group.id",
          "customer.id",
          "campaign.id",
          "ad_group_criterion.criterion_id"
        >>,
      metrics |-> <<
          "metrics.active_view_impressions",
          "metrics.active_view_measurability",
          "metrics.active_view_measurable_cost_micros",
          "metrics.active_view_measurable_impressions",
          "metrics.active_view_viewability",
          "metrics.clicks",
          "metrics.conversions",
          "metrics.conversions_value",
          "metrics.cost_micros",
          "metrics.impressions",
          "metrics.interactions",
          "metrics.interaction_event_types",
          "metrics.view_through_conversions"
        >>,
      segments |-> <<
          "segments.date",
          "segments.ad_network_type",
          "segments.device"
        >> ]

\* BUILTIN_REPORTS["click_report_daily"]: the keyword arguments its Report(...) is built with
click_report_daily ==
    [ name |-> "click_report_daily",
      resource |-> "click_view",
      given |-> {"dimensions", "metrics"},
      dimensions |-> <<
          "click_view.gclid",
          "customer.id",
          "ad_group.id",
          "campaign.id"
        >>,
      metrics |-> <<
          "metrics.clicks"
        >>,
      segments |-> <<>> ]

\* BUILTIN_REPORTS["landing_page_report_daily"]: the keyword arguments its Report(...) is built with
landing_page_report_daily ==
    [ name |-> "landing_page_report_daily",
      resource |-> "landing_page_view",
      given |-> {"dimensions", "metrics"},
      dimensions |-> <<
          "landing_page_view.expanded_final_url",
          "landing_page_view.resource_name",
          "customer.id",
          "ad_group.id",
          "campaign.id"
        >>,
      metrics |-> <<
          "metrics.average_cpc",
          "metrics.clicks",
          "metrics.cost_micros",
          "metrics.ctr",
          "metrics.impressions",
          "metrics.mobile_friendly_clicks_percentage",
          "metrics.speed_score",
          "metrics.valid_accelerated_mobile_pages_clicks_percentage"
        >>,
      segments |-> <<>> ]

\* BUILTIN_REPORTS["search_keyword_report_daily"]: the keyword arguments its Report(...) is built with
search_keyword_report_daily ==
    [ name |-> "search_keyword_report_daily",
      resource |-> "keyword_view",
      given |-> {"dimensions", "metrics"},
      dimensions |-> <<
          "customer.id",
          "ad_group.id",
          "campaign.id",
          "keyword_view.resource_name",
          "ad_group_criterion.criterion_id"
        >>,
      metrics |-> <<
          "metrics.absolute_top_impression_percentage",
          "metrics.average_cpc",
          "metrics.average_cpm",
          "metrics.clicks",
          "metrics.conversions_from_interactions_rate",
          "metrics.conversions_value",
          "metrics.cost_micros",
          "metrics.ctr",
          "metrics.impressions",
          "metrics.top_impression_percentage",
          "metrics.view_through_conversions"
        >>,
      segments |-> <<>> ]

\* BUILTIN_REPORTS["search_term_report_daily"]: the keyword arguments its Report(...) is built with
search_term_report_daily ==
    [ name |-> "search_term_report_daily",
      resource |-> "search_term_view",
      given |-> {"dimensions", "segments", "metrics"},
      dimensions |-> <<
          "customer.id",
          "ad_group.id",
          "campaign.id",
          "search_term_view.resource_name",
          "search_term_view.search_term",
          "search_term_view.status"
        >>,
      metrics |-> <<
          "metrics.absolute_top_impression_percentage",
          "metrics.average_cpc",
          "metrics.clicks",
          "metrics.conversions",
          "metrics.conversions_from_interactions_rate",
          "metrics.conversions_from_interactions_value_per_interaction",
          "metrics.cost_micros",
          "metrics.ctr",
          "metrics.impressions",
          "metrics.top_impression_percentage",
          "metrics.view_through_conversions"
        >>,
      segments |-> <<
          "segments.search_term_match_type"
        >> ]

\* BUILTIN_REPORTS["lead_form_submission_data_report_daily"]: the keyword arguments its Report(...) is built with
lead_form_submission_data_report_daily ==
    [ name |-> "lead_form_submission_data_report_daily",
      resource |-> "lead_form_submission_data",
      given |-> {"dimensions"},
      dimensions |-> <<
          "lead_form_submission_data.gclid",
          "lead_form_submission_data.submission_date_time",
          "lead_form_submission_data.lead_form_submission_fields",
          "lead_form_submission_data.custom_lead_form_submission_fields",
          "lead_form_submission_data.resource_name",
          "customer.id",
          "ad_group_ad.ad.id",
          "ad_group.id",
          "campaign.id"
        >>,
      metrics |-> <<>>,
      segments |-> <<>> ]

\* BUILTIN_REPORTS["local_services_lead_report_daily"]: the keyword arguments its Report(...) is built with
local_services_lead_report_daily ==
    [ name |-> "local_services_lead_report_daily",
      resource |-> "local_services_lead",
      given |-> {"dimensions"},
      dimensions |-> <<
          "customer.id",
          "local_services_lead.creation_date_time",
          "local_services_lead.contact_details",
          "local_services_lead.credit_details.credit_state",
          "local_services_lead.credit_details.credit_state_last_update_date_time",
          "local_services_lead.lead_charged",
          "local_services_lead.lead_status",
          "local_services_lead.lead_type",
          "local_services_lead.locale",
          "local_services_lead.note.description",
          "local_services_lead.note.edit_date_time",
          "local_services_lead.service_id"
        >>,
      metrics |-> <<>>,
      segments |-> <<>> ]

\* BUILTIN_REPORTS["local_services_lead_conversations_report_daily"]: the keyword arguments its Report(...) is built with
local_services_lead_conversations_report_daily ==
    [ name |-> "local_services_lead_conversations_report_daily",
      resource |-> "local_services_lead_conversation",
      given |-> {"dimensions"},
      dimensions |-> <<
          "customer.id",
          "local_services_lead_conversation.event_date_time",
          "local_services_lead_conversation.conversation_channel",
          "local_services_lead_conversation.local_services_lead_id",
          "local_services_lead_conversation.message_details_attachment_urls",
          "local_services_lead_conversation.message_details_text",
          "local_services_lead_conversation.participant_type",
          "local_services_lead_conversation.phone_call_details_call_duration_millis",
          "local_services_lead_conversation.phone_call_details_call_recording_url"
        >>,
      metrics |-> <<>>,
      segments |-> <<>> ]

\* The dict literal BUILTIN_REPORTS, in insertion (= iteration) order.
BUILTIN_REPORTS_LITERAL ==
    << account_report_daily,
       campaign_report_daily,
       ad_group_report_daily,
       ad_report_daily,
       audience_report_daily,
       keyword_report_daily,
       click_report_daily,
       landing_page_report_daily,
       search_keyword_report_daily,
       search_term_report_daily,
       lead_form_submission_data_report_daily,
       local_services_lead_report_daily,
       local_services_lead_conversations_report_daily >>

\* One catalog entry: each list literal of the call is a new list object,
\* each omitted argument is the constructor's shared default.  The catalog
\* is the dict as its iterators see it, the table of its entries in
\* insertion order: an entry deleted from a dict stays in the table as a
\* slot that is not live, an entry added goes to the end of the table.
BuildEntry(h, lit) ==
    LET d == IF "dimensions" \in lit.given THEN NewList(h, lit.dimensions)
             ELSE [ heap |-> h, ref |-> DefaultDimensions ]
        m == IF "metrics" \in lit.given THEN NewList(d.heap, lit.metrics)
             ELSE [ heap |-> d.heap, ref |-> DefaultMetrics ]
        s == IF "segments" \in lit.given THEN NewList(m.heap, lit.segments)
             ELSE [ heap |-> m.heap, ref |-> DefaultSegments ]
    IN  [ heap |-> s.heap,
          entry |-> [ name |-> lit.name, live |-> TRUE,
                      report |-> Report_init(lit.resource, d.ref, m.ref, s.ref) ] ]

RECURSIVE BuildCatalog(_, _, _)
BuildCatalog(h, entries, i) ==
    IF i > Len(BUILTIN_REPORTS_LITERAL) THEN [ heap |-> h, entries |-> entries ]
    ELSE LET b == BuildEntry(h, BUILTIN_REPORTS_LITERAL[i])
         IN  BuildCatalog(b.heap, Append(entries, b.entry), i + 1)

\* The module after import: the heap and BUILTIN_REPORTS.
BUILTIN_REPORTS == BuildCatalog(HeapAfterClass, <<>>, 1)

\* BUILTIN_REPORTS[name]
Builtin(cat, name) == (CHOOSE i \in 1..Len(cat) : cat[i].live /\ cat[i].name = name)

\* len(BUILTIN_REPORTS)
DictLen(cat) == Cardinality({ i \in 1..Len(cat) : cat[i].live })

----------------------------------------------------------------------------
(* Inputs                                                                  *)

\* Longest comma-separated list in a generated spec string.
MaxItems == 2
\* from_spec calls in one session.
MaxCalls == 2

SeqsUpTo(S, n) == UNION { [1..k -> S] : k \in 1..n }

Resources == { "campaign" }
DimItems == { "campaign.id", " ad_group.id ", "id", "", " segments.date",
              "segments.date" }
MetItems == { "clicks", " metrics.clicks", "cost_micros ", "metrics.clicks " }

\* custom:{resource}:{dimensions}:{metrics}, three colons.
ThreeColonSpecs ==
    { "custom:" \o r \o ":" \o StrJoin(d, ",") \o ":" \o StrJoin(m, ",") :
        r \in Resources, d \in SeqsUpTo(DimItems, MaxItems),
        m \in SeqsUpTo(MetItems, MaxItems) }

\* The same with a part missing (two colons) and with one too many (four),
\* and strings of no, one, three and four colons with nothing to parse.
SpecStrings ==
    ThreeColonSpecs
      \cup { SubSeq(s, 8, Len(s)) : s \in ThreeColonSpecs }
      \cup { s \o ":impressions" : s \in ThreeColonSpecs }
      \cup { "", "custom", "custom:campaign", ":::", "::::" }

\* The spec strings of a session of several calls.
SessionSpecs ==
    { "custom:campaign:campaign.id:clicks",
      "custom:ad_group_ad:ad_group_ad.ad.id, campaign.id:metrics.clicks,cost_micros",
      "custom:campaign:id:clicks",
      "custom:campaign:campaign.id,segments.date:clicks",
      "custom:campaign:campaign.id" }

----------------------------------------------------------------------------
(* State                                                                   *)

NoOutcome == [ status |-> "none", report |-> Report_default, error |-> NoError ]
NoPk == [ called |-> FALSE, report |-> Report_default, value |-> <<>> ]
NoSrc == [ report_spec |-> <<>>, pc |-> "idle", report |-> <<>>, iter |-> <<>>,
           units |-> <<>>, error |-> NoError ]
NoGen == [ report |-> Report_default, stream |-> <<>>, pc |-> "idle", allowed_keys |-> <<>>,
           pulled |-> 0, batch |-> 0, row |-> 0, records |-> <<>>, error |-> NoError ]

\* The module has been imported: the class body and BUILTIN_REPORTS ran.
Imported == heap = BUILTIN_REPORTS.heap /\ catalog = BUILTIN_REPORTS.entries

\* No from_spec or primary_keys call has been made.
NoCalls ==
    /\ spec_in = ""
    /\ ncalls = 0
    /\ outcome = NoOutcome
    /\ returned = <<>>
    /\ pk = NoPk

InitModule == Imported /\ NoCalls /\ src = NoSrc /\ gen = NoGen

\* A call Report.from_spec(s).
CallFromSpec(s) ==
    LET r == from_spec(heap, s)
    IN  /\ spec_in' = s
        /\ ncalls' = ncalls + 1
        /\ heap' = r.heap
        /\ outcome' = [ status |-> r.status, report |-> r.report, error |-> r.error ]
        /\ returned' = IF r.status = "returned" THEN Append(returned, r.report)
                       ELSE returned
        /\ UNCHANGED << catalog, pk, src, gen >>

\* A call r.primary_keys().
CallPrimaryKeys(r) ==
    LET p == primary_keys(heap, r)
    IN  /\ heap' = p.heap
        /\ pk' = [ called |-> TRUE, report |-> r, value |-> p.value ]
        /\ UNCHANGED << catalog, spec_in, ncalls, outcome, returned, src, gen >>

\* from_spec as a function of its input: one call on any generated string.
FromSpecOnInput == ncalls = 0 /\ \E s \in SpecStrings : CallFromSpec(s)

\* primary_keys of the Report that call returned.
PrimaryKeysOfResult ==
    /\ outcome.status = "returned"
    /\ ~pk.called
    /\ CallPrimaryKeys(outcome.report)

NextParse == FromSpecOnInput \/ PrimaryKeysOfResult

SpecParse == InitModule /\ [][NextParse]_vars

\* A session: several from_spec calls and primary_keys calls in any order.
FromSpecInSession == ncalls < MaxCalls /\ \E s \in SessionSpecs : CallFromSpec(s)

PrimaryKeysOfBuiltin ==
    \E i \in 1..Len(catalog) : catalog[i].live /\ CallPrimaryKeys(catalog[i].report)

PrimaryKeysOfReturned == \E i \in 1..Len(returned) : CallPrimaryKeys(returned[i])

NextCatalog == FromSpecInSession \/ PrimaryKeysOfBuiltin \/ PrimaryKeysOfReturned

SpecCatalog == InitModule /\ [][NextCatalog]_vars

----------------------------------------------------------------------------
(* datetime.strptime(s, "%Y-%m-%d")                                        *)

\* The characters [0-9] of the format's regular expression.
AsciiDigits == { "0", "1", "2", "3", "4", "5", "6", "7", "8", "9" }
NonZeroDigits == AsciiDigits \ { "0" }

\* The characters \d of the regular expression matches, the decimal digits
\* of every script, as far as a TLA+ string can hold them: each row is the
\* digits 0 to 9 of one script in order, the ASCII ones first and then the
\* ten characters from each of the code points
\* 06F0, 07C0, 09E6, 0AE6, 0BE6, 0CE6, 0DE6, 0ED0, 1090, 17E0, 19D0,
\* 1A80, 1A90, 1BB0, A8D0, A9D0, A9F0, ABF0.
DigitRows ==
    << "0123456789",
       "۰۱۲۳۴۵۶۷۸۹",
       "߀߁߂߃߄߅߆߇߈߉",
       "০১২৩৪৫৬৭৮৯",
       "૦૧૨૩૪૫૬૭૮૯",
       "௦௧௨௩௪௫௬௭௮௯",
       "೦೧೨೩೪೫೬೭೮೯",
       "෦෧෨෩෪෫෬෭෮෯",
       "໐໑໒໓໔໕໖໗໘໙",
       "႐႑႒႓႔႕႖႗႘႙",
       "០១២៣៤៥៦៧៨៩",
       "᧐᧑᧒᧓᧔᧕᧖᧗᧘᧙",
       "᪀᪁᪂᪃᪄᪅᪆᪇᪈᪉",
       "᪐᪑᪒᪓᪔᪕᪖᪗᪘᪙",
       "᮰᮱᮲᮳᮴᮵᮶᮷᮸᮹",
       "꣐꣑꣒꣓꣔꣕꣖꣗꣘꣙",
       "꧐꧑꧒꧓꧔꧕꧖꧗꧘꧙",
       "꧰꧱꧲꧳꧴꧵꧶꧷꧸꧹",
       "꯰꯱꯲꯳꯴꯵꯶꯷꯸꯹" >>

Digits == { SubSeq(DigitRows[r], n, n) : r \in 1..Len(DigitRows), n \in 1..10 }

\* The i-th character, "" past the end.
CharAt(s, i) == IF 1 <= i /\ i <= Len(s) THEN SubSeq(s, i, i) ELSE ""

\* int() of each decimal digit: its place in the row of its script.
DigitValues ==
    [ c \in Digits |->
        CHOOSE n \in 0..9 : \E r \in 1..Len(DigitRows) : SubSeq(DigitRows[r], n + 1, n + 1) = c ]

DigitVal(c) == DigitValues[c]

RECURSIVE ToInt(_)
ToInt(s) ==
    IF s = "" THEN 0
    ELSE LET last == CharAt(s, Len(s))
             v == IF last \in Digits THEN DigitVal(last) ELSE 0   \* %d allows a leading blank
         IN  10 * ToInt(Slice(s, 1, Len(s) - 1)) + v

IsLeap(y) == (y % 4 = 0 /\ y % 100 # 0) \/ y % 400 = 0

DaysInMonth(y, m) ==
    IF m = 2 THEN (IF IsLeap(y) THEN 29 ELSE 28)
    ELSE IF m \in { 4, 6, 9, 11 } THEN 30 ELSE 31

\* A datetime value, as distinct from the string it was parsed from.
DateTime(y, m, d) ==
    [ kind |-> "datetime", text |-> "", year |-> y, month |-> m, day |-> d ]

\* A string value of a row.
Str(s) == [ kind |-> "str", text |-> s, year |-> 0, month |-> 0, day |-> 0 ]

ParseError(msg) == [ ok |-> FALSE, value |-> DateTime(0, 0, 0), error |-> ValueError(msg) ]

\* Length of the text the directive %m matches at position p when it must
\* be followed by '-': the alternatives 1[0-2] | 0[1-9] | [1-9]; 0 for none.
MonthLen(s, p) ==
    IF CharAt(s, p) = "1" /\ CharAt(s, p + 1) \in { "0", "1", "2" } /\ CharAt(s, p + 2) = "-"
      THEN 2
    ELSE IF CharAt(s, p) = "0" /\ CharAt(s, p + 1) \in NonZeroDigits /\ CharAt(s, p + 2) = "-"
      THEN 2
    ELSE IF CharAt(s, p) \in NonZeroDigits /\ CharAt(s, p + 1) = "-"
      THEN 1
    ELSE 0

\* Length of the text the directive %d matches at position p: the first of
\* 3[01] | [12]\d | 0[1-9] | [1-9] | " "[1-9] that matches; 0 for none.
\* Only \d takes the digits of every script, the classes take ASCII ones.
DayLen(s, p) ==
    IF CharAt(s, p) = "3" /\ CharAt(s, p + 1) \in { "0", "1" } THEN 2
    ELSE IF CharAt(s, p) \in { "1", "2" } /\ CharAt(s, p + 1) \in Digits THEN 2
    ELSE IF CharAt(s, p) = "0" /\ CharAt(s, p + 1) \in NonZeroDigits THEN 2
    ELSE IF CharAt(s, p) \in NonZeroDigits THEN 1
    ELSE IF CharAt(s, p) = " " /\ CharAt(s, p + 1) \in NonZeroDigits THEN 2
    ELSE 0

\* datetime.strptime(s, "%Y-%m-%d"): the format's regular expression
\* (\d\d\d\d)-(%m)-(%d) matched at the start of s, nothing left over, the
\* matched texts converted by int(), and the numbers a date of the calendar.
strptime(s) ==
    LET yearOk == \A i \in 1..4 : CharAt(s, i) \in Digits
        ml == MonthLen(s, 6)
        dp == 6 + ml + 1
        dl == DayLen(s, dp)
    IN  IF ~(yearOk /\ CharAt(s, 5) = "-" /\ ml > 0 /\ dl > 0)
          THEN ParseError("time data does not match format '%Y-%m-%d'")
        ELSE IF dp + dl - 1 # Len(s)
          THEN ParseError("unconverted data remains")
        ELSE LET y == ToInt(Slice(s, 1, 4))
                 m == ToInt(Slice(s, 6, 5 + ml))
                 d == ToInt(Slice(s, dp, dp + dl - 1))
             IN  IF y < 1 THEN ParseError("year 0 is out of range")
                 ELSE IF d > DaysInMonth(y, m)
                   THEN ParseError("day is out of range for month")
                 ELSE [ ok |-> TRUE, value |-> DateTime(y, m, d), error |-> NoError ]

----------------------------------------------------------------------------
(* flatten(to_dict(row))                                                   *)

\* A row as to_dict returns it is a nested mapping; it is written here as
\* the sequence of its leaves in iteration order, each a path of keys and a
\* value.  flatten builds the key of a leaf from its path, key by key; of
\* two leaves with the same flattened key the later one stays.

\* The key under a parent key: parent, "_" and the new key, but the new key
\* alone when there is no parent key or the parent key is empty.
construct_key(previous_key, new_key) ==
    IF previous_key # "" THEN previous_key \o "_" \o new_key ELSE new_key

RECURSIVE KeyFrom(_, _)
KeyFrom(previous_key, path) ==
    IF path = <<>> THEN previous_key
    ELSE KeyFrom(construct_key(previous_key, Head(path)), Tail(path))

FlatKey(leaf) == KeyFrom("", leaf.path)

flatten(row) ==
    LET key == [ i \in 1..Len(row) |-> FlatKey(row[i]) ]
    IN  [ k \in { key[i] : i \in 1..Len(row) } |->
            LET last == CHOOSE i \in 1..Len(row) :
                          key[i] = k /\ \A j \in (i + 1)..Len(row) : key[j] # k
            IN  row[last].value ]

Restrict(f, keys) == [ k \in DOMAIN f \cap keys |-> f[k] ]

----------------------------------------------------------------------------
(* daily_report                                                            *)

\* fields = report.dimensions + report.metrics + report.segments
ReportFields(h, report) == h[report.dimensions] \o h[report.metrics] \o h[report.segments]

\* A faulty variant: the metrics are left out of the allowed keys.
allowed_keys_nometrics(h, report) ==
    LET fields == h[report.dimensions] \o h[report.segments]
    IN  { StrReplace(fields[i], ".", "_") : i \in 1..Len(fields) }

allowed_keys(h, report) ==
    LET fields == ReportFields(h, report)
    IN  { StrReplace(fields[i], ".", "_") : i \in 1..Len(fields) }

TypeError(msg) == [ type |-> "TypeError", msg |-> msg ]

\* A faulty variant: the flattened row is yielded unfiltered.
ProcessRow_nofilter(keys, row) ==
    LET data == flatten(row)
        none == [ k \in {} |-> Str("") ]
    IN  IF "segments_date" \in DOMAIN data
        THEN LET p == strptime(data["segments_date"].text)
             IN  IF ~p.ok THEN [ ok |-> FALSE, record |-> none, error |-> p.error ]
                 ELSE [ ok |-> TRUE, record |-> [data EXCEPT !["segments_date"] = p.value],
                        error |-> NoError ]
        ELSE [ ok |-> TRUE, record |-> data, error |-> NoError ]

\* The body of the inner loop for one row, keys being the generator's local
\* allowed_keys: the record it yields, or the exception it raises.
ProcessRow(keys, row) ==
    LET data == flatten(row)
        none == [ k \in {} |-> Str("") ]
    IN  IF "segments_date" \in DOMAIN data
        THEN IF data["segments_date"].kind # "str"
             THEN [ ok |-> FALSE, record |-> none,
                    error |-> TypeError("strptime() argument 1 must be str") ]
             ELSE LET p == strptime(data["segments_date"].text)
                  IN  IF ~p.ok THEN [ ok |-> FALSE, record |-> none, error |-> p.error ]
                      ELSE [ ok |-> TRUE,
                             record |-> Restrict([data EXCEPT !["segments_date"] = p.value], keys),
                             error |-> NoError ]
        ELSE [ ok |-> TRUE, record |-> Restrict(data, keys), error |-> NoError ]

\* daily_report(client, customer_id, report, date) with the stream the
\* service will return: a generator object that has not run yet.
\* allowed_keys is the local variable of that name, <<>> while unbound and
\* << the set >> from the first next() on.
daily_report(report, stream) ==
    [ report |-> report, stream |-> stream, pc |-> "created", allowed_keys |-> <<>>,
      pulled |-> 0, batch |-> 0, row |-> 0, records |-> <<>>, error |-> NoError ]

\* The generator's steps before its loop, run by the first next(): fields
\* and allowed_keys are computed from the Report's lists as they are then,
\* and kept; a later change of the lists does not reach them.
daily_report_start(h, g) ==
    IF g.pc = "created" THEN [ g EXCEPT !.allowed_keys = << allowed_keys(h, g.report) >> ]
    ELSE g

\* A faulty variant: batches = list(stream), every batch read before the first
\* row is handled.
RECURSIVE daily_report_loop_eager(_)
daily_report_loop_eager(g) ==
    IF g.batch >= 1 /\ g.row < Len(g.stream[g.batch])
    THEN LET r == ProcessRow(g.allowed_keys[1], g.stream[g.batch][g.row + 1])
         IN  IF r.ok
             THEN [ g EXCEPT !.pc = "suspended", !.row = g.row + 1,
                             !.pulled = Len(g.stream),
                             !.records = Append(g.records, r.record) ]
             ELSE [ g EXCEPT !.pc = "raised", !.error = r.error,
                             !.pulled = Len(g.stream) ]
    ELSE IF g.batch < Len(g.stream)
    THEN daily_report_loop_eager([ g EXCEPT !.batch = g.batch + 1, !.row = 0 ])
    ELSE [ g EXCEPT !.pc = "finished", !.pulled = Len(g.stream) ]

daily_report_next_eager(h, g) == daily_report_loop_eager(daily_report_start(h, g))

\* A faulty variant: a row that raises is skipped and the loop goes on.
RECURSIVE daily_report_loop_skip(_)
daily_report_loop_skip(g) ==
    IF g.batch >= 1 /\ g.row < Len(g.stream[g.batch])
    THEN LET r == ProcessRow(g.allowed_keys[1], g.stream[g.batch][g.row + 1])
         IN  IF r.ok
             THEN [ g EXCEPT !.pc = "suspended", !.row = g.row + 1,
                             !.records = Append(g.records, r.record) ]
             ELSE daily_report_loop_skip([ g EXCEPT !.row = g.row + 1 ])
    ELSE IF g.pulled < Len(g.stream)
    THEN daily_report_loop_skip([ g EXCEPT !.pulled = g.pulled + 1,
                                           !.batch = g.pulled + 1, !.row = 0 ])
    ELSE [ g EXCEPT !.pc = "finished" ]

daily_report_next_skip(h, g) == daily_report_loop_skip(daily_report_start(h, g))

\* The two loops, from where the generator stands to its next yield, to
\* its end, or to the exception that ends it.  pulled counts the batches
\* taken from the stream so far, batch is the one the inner loop is in, row
\* the number of its rows already handled.  No Report is read here: the
\* rows are filtered by the generator's own allowed_keys.
RECURSIVE daily_report_loop(_)
daily_report_loop(g) ==
    IF g.batch >= 1 /\ g.row < Len(g.stream[g.batch])
    THEN LET r == ProcessRow(g.allowed_keys[1], g.stream[g.batch][g.row + 1])
         IN  IF r.ok
             THEN [ g EXCEPT !.pc = "suspended", !.row = g.row + 1,
                             !.records = Append(g.records, r.record) ]
             ELSE [ g EXCEPT !.pc = "raised", !.error = r.error ]
    ELSE IF g.pulled < Len(g.stream)
    THEN daily_report_loop([ g EXCEPT !.pulled = g.pulled + 1,
                                      !.batch = g.pulled + 1, !.row = 0 ])
    ELSE [ g EXCEPT !.pc = "finished" ]

\* next(generator): the first one runs the steps before the loop, with the
\* Report as the heap h holds it, and enters the loop; a later one resumes
\* the loop.
daily_report_next(h, g) == daily_report_loop(daily_report_start(h, g))

----------------------------------------------------------------------------
(* google_ads                                                              *)

UnboundLocalError(name) == [ type |-> "UnboundLocalError", msg |-> name ]

RuntimeError(msg) == [ type |-> "RuntimeError", msg |-> msg ]

\* dlt.resource(daily_report, name=..., write_disposition="merge",
\* primary_key=...)(client, customer_id, report, date)
Resource(name, primary_key, report) ==
    [ name |-> name, write_disposition |-> "merge", primary_key |-> primary_key,
      report |-> report ]

\* google_ads(client, customer_id, date, report_spec): a generator object
\* that has not run yet.  report_spec is <<>> for None and <<s>> for the
\* string s; report is the local variable of that name, <<>> while unbound;
\* iter is the iterator of the for loop, <<>> until the loop is entered.
google_ads(report_spec) ==
    [ report_spec |-> report_spec, pc |-> "created", report |-> <<>>,
      iter |-> <<>>, units |-> <<>>, error |-> NoError ]

\* iter(BUILTIN_REPORTS.items()): an iterator that stands before the first
\* slot of the dict's table and remembers the number of entries the dict
\* has now, as the size to find again (used) and as the number of entries
\* still to give (len).
DictIter(cat) == [ pos |-> 0, used |-> DictLen(cat), len |-> DictLen(cat) ]

\* The for loop over BUILTIN_REPORTS.items(), one turn: the iterator is made
\* when the loop is entered.  Its next() raises when the dict has not the
\* size it had then; else it goes to the first live slot after the one it
\* stands at: with none left it ends the loop and the generator; with one
\* found after all expected entries were given it raises; else it gives
\* that entry, which binds report and yields its resource.
BuiltinLoop(h, cat, s) ==
    LET it == IF s.iter = <<>> THEN DictIter(cat) ELSE s.iter[1]
        rest == { i \in (it.pos + 1)..Len(cat) : cat[i].live }
    IN  IF it.used # DictLen(cat)
        THEN [ heap |-> h,
               src |-> [ s EXCEPT !.pc = "raised", !.iter = << [ it EXCEPT !.used = -1 ] >>,
                           !.error = RuntimeError("dictionary changed size during iteration") ] ]
        ELSE IF rest = {}
        THEN [ heap |-> h, src |-> [ s EXCEPT !.pc = "finished", !.iter = << it >> ] ]
        ELSE IF it.len = 0
        THEN [ heap |-> h,
               src |-> [ s EXCEPT !.pc = "raised", !.iter = << it >>,
                           !.error = RuntimeError("dictionary keys changed during iteration") ] ]
        ELSE LET i == CHOOSE j \in rest : \A k \in rest : j <= k
                 report == cat[i].report
                 keys == primary_keys(h, report)
             IN  [ heap |-> keys.heap,
                   src |-> [ s EXCEPT !.pc = "suspended", !.report = << report >>,
                               !.iter = << [ it EXCEPT !.pos = i, !.len = it.len - 1 ] >>,
                               !.units = Append(s.units,
                                           Resource(cat[i].name, keys.value, report)) ] ]

\* next(generator) on the google_ads generator.
google_ads_next(h, cat, s) ==
    IF s.pc = "created" /\ s.report_spec # <<>>
    THEN LET parsed == from_spec(h, s.report_spec[1])
         IN  IF parsed.status = "raised"
             THEN [ heap |-> parsed.heap, src |-> [ s EXCEPT !.pc = "raised", !.error = parsed.error ] ]
             ELSE LET keys == primary_keys(parsed.heap, parsed.report)
                  IN  \* the call's argument list reads the local report
                      IF s.report = <<>>
                      THEN [ heap |-> keys.heap,
                             src |-> [ s EXCEPT !.pc = "raised",
                                                !.error = UnboundLocalError("report") ] ]
                      ELSE [ heap |-> keys.heap,
                             src |-> [ s EXCEPT !.pc = "suspended",
                                                !.units = Append(s.units,
                                                    Resource("daily_report", keys.value, s.report[1])) ] ]
    ELSE BuiltinLoop(h, cat, s)

InitSource ==
    /\ Imported /\ NoCalls /\ gen = NoGen
    /\ src \in { google_ads(<<>>) } \cup { google_ads(<< s >>) : s \in SpecStrings }

\* The host iterates the source.
SourceNext ==
    /\ src.pc \in { "created", "suspended" }
    /\ LET n == google_ads_next(heap, catalog, src)
       IN  heap' = n.heap /\ src' = n.src
    /\ UNCHANGED << catalog, spec_in, ncalls, outcome, returned, pk, gen >>

NextSource == SourceNext

SpecSource == InitSource /\ [][NextSource]_vars

----------------------------------------------------------------------------
(* The daily_report generator under a consumer                             *)

\* Batches in a stream, and rows in a stream over all its batches.
MaxBatches == 2
MaxRows == 3

Leaf(path, text) == [ path |-> path, value |-> Str(text) ]

\* A row of the click view: no segments.
RowClick ==
    << Leaf(<< "click_view", "resource_name" >>, "customers/1/clickViews/2024-03-01~gclid-1"),
       Leaf(<< "click_view", "gclid" >>, "gclid-1"),
       Leaf(<< "customer", "id" >>, "1"),
       Leaf(<< "ad_group", "id" >>, "20"),
       Leaf(<< "campaign", "id" >>, "300"),
       Leaf(<< "metrics", "clicks" >>, "5") >>

\* A row of a campaign on a day.
RowOn(date) ==
    << Leaf(<< "customer", "resource_name" >>, "customers/1"),
       Leaf(<< "customer", "id" >>, "1"),
       Leaf(<< "campaign", "resource_name" >>, "customers/1/campaigns/300"),
       Leaf(<< "campaign", "id" >>, "300"),
       Leaf(<< "metrics", "clicks" >>, "7"),
       Leaf(<< "metrics", "impressions" >>, "90"),
       Leaf(<< "segments", "date" >>, date),
       Leaf(<< "segments", "device" >>, "MOBILE") >>

\* The last one has its year and the second digit of its day, 15, in the
\* digits of two other scripts.
DateStrings == { "2024-03-01", "2024-3-1", "03/01/2024", "۲۰۲۴-03-1৫" }

RowSet == { RowClick } \cup { RowOn(d) : d \in DateStrings }

RECURSIVE SumSeq(_)
SumSeq(s) == IF s = <<>> THEN 0 ELSE Head(s) + SumSeq(Tail(s))

\* The batch sizes of a stream.
Shapes ==
    { sh \in UNION { [1..k -> 0..MaxRows] : k \in 0..MaxBatches } : SumSeq(sh) <= MaxRows }

\* rows cut into batches of the sizes sh.
RECURSIVE Chunk(_, _)
Chunk(rows, sh) ==
    IF sh = <<>> THEN <<>>
    ELSE << SubSeq(rows, 1, Head(sh)) >>
           \o Chunk(SubSeq(rows, Head(sh) + 1, Len(rows)), Tail(sh))

Streams ==
    UNION { { Chunk(rows, sh) : rows \in [1..SumSeq(sh) -> RowSet] } : sh \in Shapes }

CustomSpec == "custom:campaign:campaign.id, customer.id:clicks,impressions"

\* The Reports daily_report is run on, each with the heap it lives in.
DailyReportInputs ==
    LET b == BUILTIN_REPORTS
        c == from_spec(b.heap, CustomSpec)
    IN  { [ heap |-> b.heap, report |-> b.entries[Builtin(b.entries, "click_report_daily")].report ],
          [ heap |-> c.heap, report |-> c.report ] }

InitReport ==
    /\ catalog = BUILTIN_REPORTS.entries /\ NoCalls /\ src = NoSrc
    /\ \E in \in DailyReportInputs, stream \in Streams :
          /\ heap = in.heap
          /\ gen = daily_report(in.report, stream)

\* The consumer asks for the next record.
NextRecord ==
    /\ gen.pc \in { "created", "suspended" }
    /\ gen' = daily_report_next(heap, gen)
    /\ UNCHANGED << heap, catalog, spec_in, ncalls, outcome, returned, pk, src >>

NextReport == NextRecord

SpecReport == InitReport /\ [][NextReport]_vars


----------------------------------------------------------------------------
(* Properties of the spec-string parser                                    *)

\* s contains the text t.
Contains(s, t) ==
    \E i \in 1..(Len(s) - Len(t) + 1) : SubSeq(s, i, i + Len(t) - 1) = t

\* The comma-separated items of part n of a three-colon spec string, trimmed.
TrimmedItems(spec, n) ==
    LET items == StrSplit(StrSplit(spec, ":")[n], ",")
    IN  [ i \in 1..Len(items) |-> StrStrip(items[i]) ]

\* A trimmed dimension that from_spec is to accept.
GoodDimension(d) == StrCount(d, ".") > 0 /\ ~StartsWith(d, "segments.")

ValidSpec(spec) ==
    /\ StrCount(spec, ":") = 3
    /\ \A i \in 1..Len(TrimmedItems(spec, 3)) : GoodDimension(TrimmedItems(spec, 3)[i])

\* C2: for every spec string with exactly three colons whose trimmed
\* dimensions each contain a '.' and do not start with "segments.",
\* from_spec returns a Report whose resource is the second part, whose
\* dimensions are the trimmed dimension list in order, whose metrics are the
\* trimmed metric names carrying "metrics." exactly once (added when missing,
\* kept when present), and whose segments is ["segments.date"].
C2_FromSpecValid ==
    (ncalls = 1 /\ ValidSpec(spec_in)) =>
        /\ outcome.status = "returned"
        /\ LET f == Fields(heap, outcome.report)
               names == TrimmedItems(spec_in, 4)
           IN  /\ f.resource = StrSplit(spec_in, ":")[2]
               /\ f.dimensions = TrimmedItems(spec_in, 3)
               /\ Len(f.metrics) = Len(names)
               /\ \A i \in 1..Len(names) :
                    IF StartsWith(names[i], "metrics.")
                    THEN f.metrics[i] = names[i]
                    ELSE f.metrics[i] = "metrics." \o names[i]
               /\ f.segments = << "segments.date" >>

\* A valid spec with two dimensions, one of them padded, and with one metric
\* that has the prefix and one that lacks it, has been parsed.
C2_Witness ==
    /\ ncalls = 1 /\ ValidSpec(spec_in) /\ outcome.status = "returned"
    /\ Len(TrimmedItems(spec_in, 3)) = 2
    /\ TrimmedItems(spec_in, 3) # StrSplit(StrSplit(spec_in, ":")[3], ",")
    /\ \E i, j \in 1..Len(TrimmedItems(spec_in, 4)) :
          /\ StartsWith(TrimmedItems(spec_in, 4)[i], "metrics.")
          /\ ~StartsWith(TrimmedItems(spec_in, 4)[j], "metrics.")

\* C3: for every spec string whose number of ':' is not exactly three,
\* from_spec raises the ValueError that names the expected format
\* custom:{resource}:{dimensions}:{metrics} and returns no Report, whatever
\* the dimensions and metrics in the string are.
C3_FromSpecColonCount ==
    (ncalls = 1 /\ StrCount(spec_in, ":") # 3) =>
        /\ outcome.status = "raised"
        /\ outcome.error.type = "ValueError"
        /\ Contains(outcome.error.msg, "custom:{resource}:{dimensions}:{metrics}")
        /\ outcome.error = FormatError
        /\ returned = <<>>

\* A string of four colons whose dimension part holds a dimension that
\* from_spec would refuse has been refused for its format.
C3_Witness ==
    /\ ncalls = 1 /\ outcome.status = "raised" /\ outcome.error = FormatError
    /\ StrCount(spec_in, ":") = 4
    /\ \E i \in 1..Len(TrimmedItems(spec_in, 3)) : ~GoodDimension(TrimmedItems(spec_in, 3)[i])

\* C4: for every spec string with exactly three colons in which some trimmed
\* dimension has no '.' (the empty one included) or starts with "segments.",
\* from_spec raises a ValueError and returns no Report, wherever the
\* offending dimension stands.
C4_FromSpecBadDimension ==
    (ncalls = 1 /\ StrCount(spec_in, ":") = 3 /\ ~ValidSpec(spec_in)) =>
        /\ outcome.status = "raised"
        /\ outcome.error.type = "ValueError"
        /\ returned = <<>>

\* A spec whose first dimension is good and whose second one starts with
\* "segments." has been refused.
C4_Witness ==
    /\ ncalls = 1 /\ StrCount(spec_in, ":") = 3 /\ outcome.status = "raised"
    /\ LET d == TrimmedItems(spec_in, 3)
       IN  Len(d) = 2 /\ GoodDimension(d[1]) /\ StartsWith(d[2], "segments.")

\* key is path with every '.' replaced by '_', character by character.
Underscored(path, key) ==
    /\ Len(key) = Len(path)
    /\ \A j \in 1..Len(path) :
         CharAt(key, j) = IF CharAt(path, j) = "." THEN "_" ELSE CharAt(path, j)

\* C5: primary_keys() of any Report, a catalog entry or one parsed from a
\* spec, is a list of len(dimensions)+len(segments) elements, the i-th being
\* the i-th of dimensions followed by segments with every '.' replaced by
\* '_'; the Report's own lists are as they were before the call.
C5_PrimaryKeys ==
    [][ pk' # pk =>
          LET f == Fields(heap, pk'.report)
              all == f.dimensions \o f.segments
          IN  /\ Len(pk'.value) = Len(f.dimensions) + Len(f.segments)
              /\ \A i \in 1..Len(all) : Underscored(all[i], pk'.value[i])
              /\ Fields(heap', pk'.report) = f ]_vars

\* primary_keys has been called on a Report parsed from a spec, with two
\* dimensions, one of them a path of two dots, with metrics and a segment.
C5_Witness ==
    /\ pk.called
    /\ \E i \in 1..Len(returned) : returned[i] = pk.report
    /\ LET f == Fields(heap, pk.report)
       IN  /\ Len(f.dimensions) = 2 /\ f.metrics # <<>> /\ f.segments # <<>>
           /\ \E i \in 1..Len(f.dimensions) : StrCount(f.dimensions[i], ".") = 2
           /\ Len(pk.value) = 3

\* C9: a from_spec call, returning or raising, leaves every BUILTIN_REPORTS
\* entry with the resource, dimensions, metrics and segments it had, the
\* entries built on the constructor's default lists included, and leaves the
\* Reports returned by earlier calls as they were.
C9_FromSpecFrame ==
    [][ ncalls' # ncalls =>
          /\ Len(catalog') = Len(catalog)
          /\ \A i \in 1..Len(catalog) :
               /\ catalog'[i].name = catalog[i].name
               /\ Fields(heap', catalog'[i].report) = Fields(heap, catalog[i].report)
          /\ \A j \in 1..Len(returned) :
               /\ returned'[j] = returned[j]
               /\ Fields(heap', returned[j]) = Fields(heap, returned[j]) ]_vars

\* A call has returned a Report and a later call has raised.
C9_Witness ==
    /\ ncalls >= 2 /\ Len(returned) >= 1 /\ outcome.status = "raised"
    /\ \E i \in 1..Len(catalog) : catalog[i].report.segments = DefaultSegments

----------------------------------------------------------------------------
(* Properties of the google_ads source                                     *)

\* What a resource is to the host: its name, its keys, its Report's fields.
UnitView(h, u) ==
    [ name |-> u.name, write_disposition |-> u.write_disposition,
      primary_key |-> u.primary_key, fields |-> Fields(h, u.report) ]

\* The resource of catalog entry i.
BuiltinUnitView(i) ==
    LET b == BUILTIN_REPORTS
    IN  UnitView(b.heap, Resource(b.entries[i].name,
                                  primary_keys(b.heap, b.entries[i].report).value,
                                  b.entries[i].report))

\* The resource of the Report built from spec.
CustomUnitView(spec) ==
    LET r == from_spec(BUILTIN_REPORTS.heap, spec)
    IN  UnitView(r.heap, Resource("daily_report", primary_keys(r.heap, r.report).value,
                                  r.report))

ExpectedUnits(report_spec) ==
    (IF report_spec = <<>> THEN <<>> ELSE << CustomUnitView(report_spec[1]) >>)
      \o [ i \in 1..Len(BUILTIN_REPORTS.entries) |-> BuiltinUnitView(i) ]

\* C1: iterating google_ads with a well-formed report_spec yields the
\* resource daily_report of the Report built from the spec, then one resource
\* per BUILTIN_REPORTS entry under its key; with no report_spec it yields the
\* built-in ones; no error is raised in either case.
C1_SourceUnits ==
    (src.pc # "idle" /\ (src.report_spec = <<>> \/ ValidSpec(src.report_spec[1]))) =>
        /\ src.pc # "raised"
        /\ \A i \in 1..Len(src.units) :
             UnitView(heap, src.units[i]) = ExpectedUnits(src.report_spec)[i]
        /\ src.pc = "finished" => Len(src.units) = Len(ExpectedUnits(src.report_spec))

----------------------------------------------------------------------------
(* Properties of daily_report                                              *)

\* The rows of a stream in the order the service streams them.
RECURSIVE FlatRows(_)
FlatRows(stream) == IF stream = <<>> THEN <<>> ELSE Head(stream) \o FlatRows(Tail(stream))

\* The number of rows in the first b batches.
RowsIn(stream, b) == Len(FlatRows(SubSeq(stream, 1, b)))

\* The keys a Report declares: dimensions, metrics and segments, underscored.
Declared(h, report) ==
    LET f == Fields(h, report)
    IN  { StrReplace(p, ".", "_") :
            p \in { f.dimensions[i] : i \in 1..Len(f.dimensions) }
                    \cup { f.metrics[i] : i \in 1..Len(f.metrics) }
                    \cup { f.segments[i] : i \in 1..Len(f.segments) } }

AllDigits(s) == \A i \in 1..Len(s) : CharAt(s, i) \in Digits

AllAsciiDigits(s) == \A i \in 1..Len(s) : CharAt(s, i) \in AsciiDigits

HasDate(row) == "segments_date" \in DOMAIN flatten(row)

DateText(row) == flatten(row)["segments_date"].text

\* s is YYYY-MM-DD: four, two and two of the digits 0 to 9, a date of the
\* calendar.
StrictDate(s) ==
    /\ Len(s) = 10 /\ CharAt(s, 5) = "-" /\ CharAt(s, 8) = "-"
    /\ AllAsciiDigits(Slice(s, 1, 4)) /\ AllAsciiDigits(Slice(s, 6, 7))
    /\ AllAsciiDigits(Slice(s, 9, 10))
    /\ ToInt(Slice(s, 1, 4)) >= 1
    /\ ToInt(Slice(s, 6, 7)) \in 1..12
    /\ ToInt(Slice(s, 9, 10)) \in 1..DaysInMonth(ToInt(Slice(s, 1, 4)), ToInt(Slice(s, 6, 7)))

\* s is year-month-day, a date of the calendar, with a year of four decimal
\* digits of any script, a month of one or two of the digits 0 to 9, and a
\* day of one or two of the digits 0 to 9, or of a blank and one of them, or
\* of 1 or 2 and a decimal digit of any script: 2024-3-1 as well as
\* 2024-03-01.
LooseDate(s) ==
    LET p == StrSplit(s, "-")
    IN  /\ Len(p) = 3
        /\ Len(p[1]) = 4 /\ AllDigits(p[1]) /\ ToInt(p[1]) >= 1
        /\ Len(p[2]) \in { 1, 2 } /\ AllAsciiDigits(p[2]) /\ ToInt(p[2]) \in 1..12
        /\ \/ Len(p[3]) \in { 1, 2 } /\ AllAsciiDigits(p[3])
           \/ Len(p[3]) = 2 /\ CharAt(p[3], 1) = " " /\ CharAt(p[3], 2) \in AsciiDigits
           \/ Len(p[3]) = 2 /\ CharAt(p[3], 1) \in { "1", "2" } /\ CharAt(p[3], 2) \in Digits
        /\ ToInt(p[3]) \in 1..DaysInMonth(ToInt(p[1]), ToInt(p[2]))

\* The date a LooseDate string names.
DateOf(s) ==
    LET p == StrSplit(s, "-") IN DateTime(ToInt(p[1]), ToInt(p[2]), ToInt(p[3]))

\* The record of a row: its flattened mapping, segments_date as a date,
\* restricted to the declared keys.
ExpectedRecord(h, report, row) ==
    LET flat == flatten(row)
    IN  [ k \in DOMAIN flat \cap Declared(h, report) |->
            IF k = "segments_date" THEN DateOf(flat[k].text) ELSE flat[k] ]

\* C6: on a stream whose rows have well-formed dates daily_report yields one
\* record per row in stream order, batch by batch and row by row, none
\* reordered, repeated or left out; each record holds the declared keys that
\* the flattened row has, with the row's values (segments_date as the date
\* it names), and no undeclared key.
C6_OneRecordPerRow ==
    LET rows == FlatRows(gen.stream)
    IN  (gen.pc # "idle"
           /\ \A i \in 1..Len(rows) : HasDate(rows[i]) => StrictDate(DateText(rows[i]))) =>
          /\ gen.pc # "raised"
          /\ Len(gen.records) <= Len(rows)
          /\ \A i \in 1..Len(gen.records) :
               gen.records[i] = ExpectedRecord(heap, gen.report, rows[i])
          /\ gen.pc = "finished" => Len(gen.records) = Len(rows)

\* A stream of two non-empty batches of different rows has been read to its
\* end, and an undeclared key of a row is missing from its record.
C6_Witness ==
    LET rows == FlatRows(gen.stream)
    IN  /\ gen.pc = "finished"
        /\ \A i \in 1..Len(rows) : HasDate(rows[i]) => StrictDate(DateText(rows[i]))
        /\ Len(gen.stream) = 2 /\ gen.stream[1] # <<>> /\ gen.stream[2] # <<>>
        /\ Len(gen.records) >= 2 /\ gen.records[1] # gen.records[2]
        /\ \E i \in 1..Len(rows) :
             /\ DOMAIN gen.records[i] # DOMAIN flatten(rows[i])
             /\ "segments_date" \in DOMAIN gen.records[i]

\* What C7 says of rows whose date is good (a StrictDate when strict, a
\* LooseDate otherwise) and of rows whose date is not: the former yield the
\* date as segments_date when it is declared; the first of the latter ends
\* the extraction with a ValueError after the records of the rows before it,
\* and neither it nor a later row is yielded.
DateHandling(strict) ==
    LET Good(s) == IF strict THEN StrictDate(s) ELSE LooseDate(s)
        rows == FlatRows(gen.stream)
        bad == { j \in 1..Len(rows) : HasDate(rows[j]) /\ ~Good(DateText(rows[j])) }
    IN  gen.pc # "idle" =>
          /\ \A i \in 1..Len(gen.records) :
               (HasDate(rows[i]) /\ Good(DateText(rows[i]))
                  /\ "segments_date" \in Declared(heap, gen.report)) =>
                 /\ "segments_date" \in DOMAIN gen.records[i]
                 /\ gen.records[i]["segments_date"] = DateOf(DateText(rows[i]))
          /\ \A j \in bad : Len(gen.records) < j /\ gen.pc # "finished"
          /\ gen.pc = "raised" =>
               /\ gen.error.type = "ValueError"
               /\ bad # {}
               /\ \A j \in bad : (\A k \in bad : j <= k) => Len(gen.records) = j - 1

\* C7 as claimed: a segments_date that is a well-formed YYYY-MM-DD string is
\* yielded as the date it names; one that is not in YYYY-MM-DD format makes
\* the extraction fail at its row, after the records of the earlier rows and
\* with no record for it or for a later row.
C7_NotYYYYMMDDFails == DateHandling(TRUE)

\* C7 amended: the dates that are yielded are those strptime takes for
\* "%Y-%m-%d", which has a month and a day of one or two digits, so that
\* 2024-3-1 is yielded as March 1, 2024; every other string makes the
\* extraction fail at its row as claimed.
C7_RejectedDateFails == DateHandling(FALSE)

\* The extraction has failed at a row after yielding an earlier one, and the
\* stream holds a row after the failing one.
C7_Witness ==
    /\ gen.pc = "raised"
    /\ Len(gen.records) >= 1
    /\ Len(FlatRows(gen.stream)) >= Len(gen.records) + 2
    /\ "segments_date" \in DOMAIN gen.records[1]

\* BUILTIN_REPORTS["click_report_daily"]
ClickReport == catalog[Builtin(catalog, "click_report_daily")].report

\* The resources google_ads yields when iterated to its end.
RECURSIVE AllUnits(_, _, _)
AllUnits(h, cat, s) ==
    IF s.pc \in { "finished", "raised" } THEN s.units
    ELSE LET n == google_ads_next(h, cat, s) IN AllUnits(n.heap, cat, n.src)

ClickKeys == { "click_view_gclid", "customer_id", "ad_group_id", "campaign_id" }

\* What C8 says, with metric the key under which the clicks are yielded:
\* where click_report_daily has been extracted from one batch of one
\* matching row, the Report is as described, google_ads registers it under
\* the four underscored dimensions, and the one record has the four keys
\* plus metric.
ClickScenario(metric) ==
    ( /\ gen.pc = "finished"
      /\ gen.report = ClickReport
      /\ Len(gen.stream) = 1 /\ Len(gen.stream[1]) = 1
      /\ ClickKeys \subseteq DOMAIN flatten(gen.stream[1][1])
      /\ "metrics_clicks" \in DOMAIN flatten(gen.stream[1][1]) ) =>
        /\ Fields(heap, ClickReport) =
             [ resource |-> "click_view",
               dimensions |-> << "click_view.gclid", "customer.id", "ad_group.id", "campaign.id" >>,
               metrics |-> << "metrics.clicks" >>,
               segments |-> <<>> ]
        /\ LET units == AllUnits(heap, catalog, google_ads(<<>>))
           IN  \E i \in 1..Len(units) :
                 /\ units[i].name = "click_report_daily"
                 /\ units[i].report = ClickReport
                 /\ units[i].write_disposition = "merge"
                 /\ units[i].primary_key =
                      << "click_view_gclid", "customer_id", "ad_group_id", "campaign_id" >>
                 /\ \A j \in 1..Len(units) : units[j].name = "click_report_daily" => j = i
        /\ Len(gen.records) = 1
        /\ DOMAIN gen.records[1] = ClickKeys \cup { metric }

\* C8 as claimed: click_report_daily is the click_view report of the four
\* dimensions and metrics.clicks with no segments, registered under the four
\* underscored dimensions, and a batch of one matching row yields one record
\* of those four keys plus clicks.
C8_ClickRecordHasClicks == ClickScenario("clicks")

\* C8 amended: the same, the record holding the four keys plus
\* metrics_clicks, the underscored metric path.
C8_ClickRecordHasMetricsClicks == ClickScenario("metrics_clicks")

\* click_report_daily has been extracted from a stream of one batch of one
\* click row.
C8_Witness ==
    /\ gen.pc = "finished" /\ gen.report = ClickReport
    /\ gen.stream = << << RowClick >> >>
    /\ Len(gen.records) = 1

\* The generator has taken no more batches than the records it has yielded
\* need.
LazyPull ==
    /\ gen.pc = "created" => gen.pulled = 0 /\ gen.records = <<>>
    /\ gen.pulled >= 1 => Len(gen.records) >= RowsIn(gen.stream, gen.pulled - 1)
    /\ gen.pc = "suspended" =>
         /\ gen.pulled >= 1
         /\ Len(gen.records) > RowsIn(gen.stream, gen.pulled - 1)
         /\ Len(gen.records) <= RowsIn(gen.stream, gen.pulled)
    /\ gen.pc = "finished" =>
         /\ gen.pulled = Len(gen.stream)
         /\ Len(gen.records) = Len(FlatRows(gen.stream))

\* What is left for the generator to do: rows to yield, batches to take,
\* and its end to reach.
Remaining(g) ==
    (Len(FlatRows(g.stream)) - Len(g.records)) + (Len(g.stream) - g.pulled)
      + (IF g.pc \in { "finished", "raised" } THEN 0 ELSE 1)

\* C10: daily_report takes batch n+1 from the stream only when every row of
\* batch n has been yielded, a consumer holding k records has caused no
\* batch past the one of record k to be taken, and on a finite stream the
\* generator ends: before and after every next() it holds no batch that the
\* records yielded do not need, every next() leaves less to do, and the
\* generator finishes past the last row of the last batch.
C10_LazyBatches ==
    [][ /\ LazyPull /\ LazyPull'
        /\ Remaining(gen') < Remaining(gen) ]_vars

\* A stream of two non-empty batches has been read to its end.
C10_Witness ==
    /\ gen.pc = "finished"
    /\ Len(gen.stream) >= 2
    /\ \A b \in 1..Len(gen.stream) : gen.stream[b] # <<>>
=============================================================================
